---- MODULE Spec2Model ----
(***************************************************************************)
(* State machine of LoggedInLayout (src/LoggedInLayout.tsx): the shell's   *)
(* useState slots, the AuthContext values it consumes, the session-storage *)
(* flag, the state of the nested UploadImageModal component, the browser   *)
(* objects it creates (object URLs, FileReaders) and the passive effects   *)
(* React has scheduled and not yet run.                                    *)
(*                                                                         *)
(* One step is one event: a handler runs to completion and React commits   *)
(* the resulting render.  A commit schedules the useEffect callbacks whose *)
(* dependencies changed; they run (LowCreditEffect, NotificationEffect, in *)
(* source order) before the next event is handled.                         *)
(*                                                                         *)
(* UploadImageModal is declared inside the body of LoggedInLayout (line    *)
(* 85), so every render of LoggedInLayout creates a new component type and *)
(* React unmounts the mounted UploadImageModal and mounts a fresh one: its *)
(* useState slots restart from their initial values (Commit).              *)
(*                                                                         *)
(* Spec is the whole shell.  Its parts are checked under SpecShell (pages, *)
(* low-credit warning, plan picker and payment view), SpecToast (the       *)
(* notification list and the toast slot) and SpecUpload (the upload flow): *)
(* each keeps the actions that write the variables its properties read and *)
(* leaves out the rest of the shell, which acts on those variables only by *)
(* making LoggedInLayout render again, as the actions kept also do.        *)
(***************************************************************************)
EXTENDS Integers, Sequences, FiniteSets, Bags, TLC

\* ------------------------------------------------------------- bounds
MaxCredits == 6
MaxNotifs == 2
MaxTitleLen == 1
MaxReaders == 2
MaxUrls == 2

\* ---------------------------------------------------- program constants
LowCreditLimit == 5
MiB == 1024 * 1024
maxSize == 5 * 1024 * 1024

\* ------------------------------------------------------------- values
Pages == {"generator", "profile", "support", "favorites", "gallery"}
Plans == {[name |-> "starter"], [name |-> "pro"]}
UserIds == {"u1", "u2"}

Null == [null |-> TRUE]

allowedTypes == {"image/jpeg", "image/png", "image/webp"}

\* The files the user can pick: the spec's examples and the boundary sizes.
Files ==
    { [type |-> "image/jpeg", size |-> 2 * MiB],
      [type |-> "image/webp", size |-> maxSize],
      [type |-> "image/png", size |-> maxSize + 1],
      [type |-> "image/png", size |-> 6 * MiB],
      [type |-> "image/gif", size |-> 2 * MiB],
      [type |-> "application/pdf", size |-> 6 * MiB] }

\* Titles are strings over a blank and a letter.
Chars == {" ", "a"}
Titles == UNION { [1..n -> Chars] : n \in 0..MaxTitleLen }

\* String.prototype.trim: strip the blanks at both ends.
RECURSIVE TrimStart(_)
TrimStart(s) ==
    IF s # <<>> /\ Head(s) = " " THEN TrimStart(Tail(s)) ELSE s

RECURSIVE TrimEnd(_)
TrimEnd(s) ==
    IF s # <<>> /\ s[Len(s)] = " " THEN TrimEnd(SubSeq(s, 1, Len(s) - 1)) ELSE s

\* Mutant: the title is tested without trimming.
Trim_Missing(s) == s

Trim(s) == TrimEnd(TrimStart(s))

\* FileReader.readAsDataURL: "data:<type>;base64,<content>" on success, a null
\* result on a read error.
ReadAsDataURL(file, ok) ==
    IF ok THEN [scheme |-> "data", mime |-> file.type, bytes |-> file.size]
    ELSE Null

\* createdAt strings and new Date(createdAt).getTime()
CreatedAts == {"2024-01-01T00:00:00Z", "2024-01-02T00:00:00Z"}
GetTime(createdAt) ==
    CASE createdAt = "2024-01-01T00:00:00Z" -> 1704067200
      [] createdAt = "2024-01-02T00:00:00Z" -> 1704153600

NotifId(i) == "n-" \o ToString(i)

\* The toasts the upload flow raises; T stands for the Date.now() stamp.
TypeErrorToast ==
    [id |-> "err-T", message |-> "Invalid file type. Use JPG, PNG, or WEBP.", type |-> "error"]
SizeErrorToast ==
    [id |-> "err-T", message |-> "File is too large. Max size is 5MB.", type |-> "error"]
ReadErrorToast ==
    [id |-> "err-T", message |-> "Failed to read file.", type |-> "error"]
SuccessToast ==
    [id |-> "succ-T", message |-> "Image successfully published to gallery!", type |-> "success"]

\* -------------------------------------------------------------- state
VARIABLES
    currentPage,                \* useState<Page>
    isUploadModalOpen,          \* useState(false)
    activeToast,                \* useState<toast | null>
    showLowCreditWarning,       \* useState(false)
    isSelectPlanModalOpen,      \* useState(false)
    selectedPlanForPayment,     \* useState<CreditPlan | null>
    user,                       \* AuthContext.user
    notifications,              \* AuthContext.notifications: null or [items |-> the array]
    lowCreditWarningDismissed,  \* sessionStorage 'lowCreditWarningDismissed' === 'true'
    imageFile,                  \* UploadImageModal useState<File | null>
    previewUrl,                 \* UploadImageModal useState<string | null>
    title,                      \* UploadImageModal useState('')
    loading,                    \* UploadImageModal useState(false)
    objectURLs,                 \* object URLs created so far: handle -> "live" | "revoked"
    readers,                    \* FileReaders whose read has not ended
    pendingEffects,             \* effects scheduled by the last commit
    markCalls,                  \* markNotificationsAsRead calls made by the last step
    addCalls                    \* addUserUploadedImage calls made by the last step

parentVars == <<currentPage, isUploadModalOpen, activeToast, showLowCreditWarning,
                isSelectPlanModalOpen, selectedPlanForPayment>>
vars == <<currentPage, isUploadModalOpen, activeToast, showLowCreditWarning,
          isSelectPlanModalOpen, selectedPlanForPayment, user, notifications,
          lowCreditWarningDismissed, imageFile, previewUrl, title, loading,
          objectURLs, readers, pendingEffects, markCalls, addCalls>>

\* URL.createObjectURL hands out a fresh blob URL each time.
ObjectUrl(n) == [blob |-> n]

Users == [id : UserIds, credits : 0..MaxCredits]

\* Mutant: the notification effect does not depend on the toast slot.
Scheduled_NotOnToast(newToast, newUser, newNotifs) ==
    (IF newUser THEN {"credit", "notif"} ELSE {})
    \cup (IF newNotifs THEN {"notif"} ELSE {})

\* ------------------------------------------------------------ React
\* The passive effects a commit schedules: those with a changed dependency
\* (lines 42 and 59).  newToast, newUser, newNotifs: the step stored a new
\* object in that slot, which is a change for React even when the content is
\* the same.
Scheduled(newToast, newUser, newNotifs) ==
    (IF newUser THEN {"credit", "notif"} ELSE {})
    \cup (IF newToast \/ newNotifs \/ activeToast' # activeToast THEN {"notif"} ELSE {})

\* Whether the step makes LoggedInLayout render again: one of its state slots
\* or a context value changed.
Rendered(newToast, newUser, newNotifs) ==
    \/ newToast \/ newUser \/ newNotifs
    \/ parentVars' # parentVars

\* The modal's state after the step's commit.  f, p, t, l: the modal's state
\* as the handler left it.  A render of LoggedInLayout replaces the
\* UploadImageModal component type (line 85), so the mounted instance is
\* thrown away and a new one starts from the useState initial values
\* (lines 86-89); the FileReaders the old instance started stay in flight.
Commit(rendered, f, p, t, l) ==
    IF rendered
    THEN /\ imageFile' = Null
         /\ previewUrl' = Null
         /\ title' = <<>>
         /\ loading' = FALSE
    ELSE /\ imageFile' = f
         /\ previewUrl' = p
         /\ title' = t
         /\ loading' = l

\* The commit of a step that touches neither the modal's own state nor the
\* FileReaders.
CommitParent(newToast, newUser, newNotifs) ==
    /\ Commit(Rendered(newToast, newUser, newNotifs), imageFile, previewUrl, title, loading)
    /\ readers' = readers

NoCalls == markCalls' = <<>> /\ addCalls' = <<>>

\* --------------------------------------------------------------- Init
\* The state after LoggedInLayout mounts: the useState initial values, the
\* context as the provider gives it, both effects scheduled.
Init ==
    /\ currentPage = "generator"
    /\ isUploadModalOpen = FALSE
    /\ activeToast = Null
    /\ showLowCreditWarning = FALSE
    /\ isSelectPlanModalOpen = FALSE
    /\ selectedPlanForPayment = Null
    /\ user \in {Null} \cup Users
    /\ notifications \in {Null, [items |-> <<>>]}
    /\ lowCreditWarningDismissed \in BOOLEAN
    /\ imageFile = Null
    /\ previewUrl = Null
    /\ title = <<>>
    /\ loading = FALSE
    /\ objectURLs = <<>>
    /\ readers = EmptyBag
    /\ pendingEffects = {"credit", "notif"}
    /\ markCalls = <<>>
    /\ addCalls = <<>>

\* ------------------------------------------------------------ effects
\* Mutant: the flag is never removed from the session storage.
StoredDismissal_Kept(credits, stored) == stored

\* lines 34-36: the stored flag after the effect
StoredDismissal(credits, stored) ==
    IF credits > LowCreditLimit THEN FALSE ELSE stored

\* Mutant: the lower limit of the range is forgotten.
ShouldShowWarning_NoLowerLimit(credits, warningDismissed) ==
    credits <= LowCreditLimit /\ ~warningDismissed

\* line 37; warningDismissed is the flag as read on line 33, before line 35
ShouldShowWarning(credits, warningDismissed) ==
    credits > 0 /\ credits <= LowCreditLimit /\ ~warningDismissed

\* lines 31-42
LowCreditEffect ==
    /\ "credit" \in pendingEffects
    /\ IF user = Null
       THEN UNCHANGED <<lowCreditWarningDismissed, showLowCreditWarning>>
       ELSE LET warningDismissed == lowCreditWarningDismissed
            IN /\ lowCreditWarningDismissed' =
                      StoredDismissal(user.credits, lowCreditWarningDismissed)
               /\ showLowCreditWarning' = ShouldShowWarning(user.credits, warningDismissed)
    /\ UNCHANGED <<currentPage, isUploadModalOpen, activeToast, isSelectPlanModalOpen,
                   selectedPlanForPayment, user, notifications, objectURLs>>
    /\ CommitParent(FALSE, FALSE, FALSE)
    /\ pendingEffects' = pendingEffects \ {"credit"}
    /\ NoCalls

\* Mutant: the filter forgets the owner of the notification.
Unread_AnyUser(list, u) ==
    SelectSeq(list, LAMBDA n : ~n.read)

\* The unread notifications of the user, earliest first (lines 47-49).
\* Array.prototype.sort is stable: equal times keep their list order.
Unread(list, u) ==
    SelectSeq(list, LAMBDA n : ~n.read /\ n.userId = u.id)

Before(a, b) == GetTime(a.createdAt) - GetTime(b.createdAt) < 0

RECURSIVE Insert(_, _)
Insert(sorted, n) ==
    IF sorted = <<>> THEN <<n>>
    ELSE IF Before(n, Head(sorted)) THEN <<n>> \o sorted
    ELSE <<Head(sorted)>> \o Insert(Tail(sorted), n)

RECURSIVE Sort(_)
Sort(list) ==
    IF list = <<>> THEN <<>>
    ELSE Insert(Sort(SubSeq(list, 1, Len(list) - 1)), list[Len(list)])

ToastOf(n) == [id |-> n.id, message |-> n.message, type |-> n.type]

\* Mutant: the effect does not look at the toast on show.
EffectReturnsEarly_IgnoresToast == user = Null \/ notifications = Null

\* line 45
EffectReturnsEarly == activeToast # Null \/ user = Null \/ notifications = Null

\* lines 44-59
NotificationEffect ==
    /\ "notif" \in pendingEffects
    /\ "credit" \notin pendingEffects
    /\ IF EffectReturnsEarly
       THEN activeToast' = activeToast
       ELSE LET unread == Sort(Unread(notifications.items, user))
            IN IF Len(unread) > 0
               THEN activeToast' = ToastOf(unread[1])
               ELSE activeToast' = activeToast
    /\ UNCHANGED <<currentPage, isUploadModalOpen, showLowCreditWarning,
                   isSelectPlanModalOpen, selectedPlanForPayment, user, notifications,
                   lowCreditWarningDismissed, objectURLs>>
    /\ CommitParent(FALSE, FALSE, FALSE)
    /\ pendingEffects' = Scheduled(FALSE, FALSE, FALSE)
    /\ NoCalls

\* ------------------------------------------------------ collaborators
\* AuthContext.markNotificationsAsRead(ids): the notifications with these ids
\* become read.
MarkNotificationsAsRead(list, ids) ==
    IF list = Null THEN list
    ELSE [items |-> [i \in DOMAIN list.items |->
                       IF \E k \in DOMAIN ids : ids[k] = list.items[i].id
                       THEN [list.items[i] EXCEPT !.read = TRUE]
                       ELSE list.items[i]]]

\* --------------------------------------------------------- the toast
\* Mutant: the call carries no id.
ClosedIds_Empty(toast) == <<>>

\* line 63: the argument of markNotificationsAsRead
ClosedIds(toast) == <<toast.id>>

\* lines 61-66 (Toast onClose, line 191)
HandleToastClose ==
    /\ pendingEffects = {}
    /\ IF activeToast # Null
       THEN /\ markCalls' = <<ClosedIds(activeToast)>>
            /\ notifications' = MarkNotificationsAsRead(notifications, ClosedIds(activeToast))
            /\ activeToast' = Null
       ELSE /\ markCalls' = <<>>
            /\ UNCHANGED <<notifications, activeToast>>
    /\ addCalls' = <<>>
    /\ UNCHANGED <<currentPage, isUploadModalOpen, showLowCreditWarning,
                   isSelectPlanModalOpen, selectedPlanForPayment, user,
                   lowCreditWarningDismissed, objectURLs>>
    /\ pendingEffects' = Scheduled(FALSE, FALSE, notifications' # notifications)
    /\ CommitParent(FALSE, FALSE, notifications' # notifications)

\* ------------------------------------------------- low-credit warning
\* lines 68-71 (LowCreditWarning onDismiss, line 192)
HandleDismissLowCreditWarning ==
    /\ pendingEffects = {}
    /\ showLowCreditWarning
    /\ showLowCreditWarning' = FALSE
    /\ lowCreditWarningDismissed' = TRUE
    /\ UNCHANGED <<currentPage, isUploadModalOpen, activeToast, isSelectPlanModalOpen,
                   selectedPlanForPayment, user, notifications, objectURLs>>
    /\ pendingEffects' = Scheduled(FALSE, FALSE, FALSE)
    /\ CommitParent(FALSE, FALSE, FALSE)
    /\ NoCalls

\* lines 75-78 (LowCreditWarning onBuyCredits, line 192)
HandleBuyCreditsFromWarning ==
    /\ pendingEffects = {}
    /\ showLowCreditWarning
    /\ showLowCreditWarning' = FALSE
    /\ isSelectPlanModalOpen' = TRUE
    /\ UNCHANGED <<currentPage, isUploadModalOpen, activeToast, selectedPlanForPayment,
                   user, notifications, lowCreditWarningDismissed, objectURLs>>
    /\ pendingEffects' = Scheduled(FALSE, FALSE, FALSE)
    /\ CommitParent(FALSE, FALSE, FALSE)
    /\ NoCalls

\* ------------------------------------------------ plans and payment
\* line 73; wired to the header (line 172), the generator page (line 178) and
\* the profile page (line 179)
OpenSelectPlanModal ==
    /\ pendingEffects = {}
    /\ \E from \in {"header", "generator", "profile"} :
          from = "header" \/ from = currentPage
    /\ isSelectPlanModalOpen' = TRUE
    /\ UNCHANGED <<currentPage, isUploadModalOpen, activeToast, showLowCreditWarning,
                   selectedPlanForPayment, user, notifications,
                   lowCreditWarningDismissed, objectURLs>>
    /\ pendingEffects' = Scheduled(FALSE, FALSE, FALSE)
    /\ CommitParent(FALSE, FALSE, FALSE)
    /\ NoCalls

\* Mutant: a plan can be chosen while the picker is not on show.
HandlePlanSelected_PickerNotNeeded(plan) ==
    /\ pendingEffects = {}
    /\ isSelectPlanModalOpen' = FALSE
    /\ selectedPlanForPayment' = plan
    /\ UNCHANGED <<currentPage, isUploadModalOpen, activeToast, showLowCreditWarning,
                   user, notifications, lowCreditWarningDismissed, objectURLs>>
    /\ pendingEffects' = Scheduled(FALSE, FALSE, FALSE)
    /\ CommitParent(FALSE, FALSE, FALSE)
    /\ NoCalls

\* lines 80-83 (SelectPlanModal onSelectPlan, line 186)
HandlePlanSelected(plan) ==
    /\ pendingEffects = {}
    /\ isSelectPlanModalOpen
    /\ isSelectPlanModalOpen' = FALSE
    /\ selectedPlanForPayment' = plan
    /\ UNCHANGED <<currentPage, isUploadModalOpen, activeToast, showLowCreditWarning,
                   user, notifications, lowCreditWarningDismissed, objectURLs>>
    /\ pendingEffects' = Scheduled(FALSE, FALSE, FALSE)
    /\ CommitParent(FALSE, FALSE, FALSE)
    /\ NoCalls

\* SelectPlanModal onClose, line 186
CloseSelectPlanModal ==
    /\ pendingEffects = {}
    /\ isSelectPlanModalOpen
    /\ isSelectPlanModalOpen' = FALSE
    /\ UNCHANGED <<currentPage, isUploadModalOpen, activeToast, showLowCreditWarning,
                   selectedPlanForPayment, user, notifications,
                   lowCreditWarningDismissed, objectURLs>>
    /\ pendingEffects' = Scheduled(FALSE, FALSE, FALSE)
    /\ CommitParent(FALSE, FALSE, FALSE)
    /\ NoCalls

\* PaymentRequestModal onClose, line 187
ClosePaymentModal ==
    /\ pendingEffects = {}
    /\ selectedPlanForPayment # Null
    /\ selectedPlanForPayment' = Null
    /\ UNCHANGED <<currentPage, isUploadModalOpen, activeToast, showLowCreditWarning,
                   isSelectPlanModalOpen, user, notifications,
                   lowCreditWarningDismissed, objectURLs>>
    /\ pendingEffects' = Scheduled(FALSE, FALSE, FALSE)
    /\ CommitParent(FALSE, FALSE, FALSE)
    /\ NoCalls

\* -------------------------------------------------------------- pages
\* Mutant: no navigation while the upload modal shows its spinner.
SetCurrentPage_NotWhileLoading(page) ==
    /\ pendingEffects = {}
    /\ ~loading
    /\ currentPage' = page
    /\ UNCHANGED <<isUploadModalOpen, activeToast, showLowCreditWarning,
                   isSelectPlanModalOpen, selectedPlanForPayment, user, notifications,
                   lowCreditWarningDismissed, objectURLs>>
    /\ pendingEffects' = Scheduled(FALSE, FALSE, FALSE)
    /\ CommitParent(FALSE, FALSE, FALSE)
    /\ NoCalls

\* setCurrentPage, line 25, as the callbacks of lines 171-190 call it
SetCurrentPage(page) ==
    /\ pendingEffects = {}
    /\ currentPage' = page
    /\ UNCHANGED <<isUploadModalOpen, activeToast, showLowCreditWarning,
                   isSelectPlanModalOpen, selectedPlanForPayment, user, notifications,
                   lowCreditWarningDismissed, objectURLs>>
    /\ pendingEffects' = Scheduled(FALSE, FALSE, FALSE)
    /\ CommitParent(FALSE, FALSE, FALSE)
    /\ NoCalls

\* Header onNavigate, line 171
HeaderNavigate(page) == SetCurrentPage(page)

\* ProfilePage onNavigateBack, line 179
ProfileNavigateBack == currentPage = "profile" /\ SetCurrentPage("generator")

\* ProfilePage onNavigateToSupport, line 179
ProfileNavigateToSupport == currentPage = "profile" /\ SetCurrentPage("support")

\* Mutant: the support page goes back to the generator.
SupportNavigateBack_ToGenerator == currentPage = "support" /\ SetCurrentPage("generator")

\* SupportPage onNavigateBack, line 180
SupportNavigateBack == currentPage = "support" /\ SetCurrentPage("profile")

\* FavoritesPage onNavigateBack, line 181
FavoritesNavigateBack == currentPage = "favorites" /\ SetCurrentPage("generator")

\* PublicGalleryPage onNavigateBack, line 182
GalleryNavigateBack == currentPage = "gallery" /\ SetCurrentPage("generator")

\* MiniGallery onOpenFavorites, line 190
OpenFavorites == SetCurrentPage("favorites")

\* ------------------------------------------------------- upload modal
\* Header onUploadImage, line 173
OpenUploadModal ==
    /\ pendingEffects = {}
    /\ isUploadModalOpen' = TRUE
    /\ UNCHANGED <<currentPage, activeToast, showLowCreditWarning, isSelectPlanModalOpen,
                   selectedPlanForPayment, user, notifications,
                   lowCreditWarningDismissed, objectURLs>>
    /\ pendingEffects' = Scheduled(FALSE, FALSE, FALSE)
    /\ CommitParent(FALSE, FALSE, FALSE)
    /\ NoCalls

\* Modal onClose, line 136
CloseUploadModal ==
    /\ pendingEffects = {}
    /\ isUploadModalOpen
    /\ isUploadModalOpen' = FALSE
    /\ UNCHANGED <<currentPage, activeToast, showLowCreditWarning, isSelectPlanModalOpen,
                   selectedPlanForPayment, user, notifications,
                   lowCreditWarningDismissed, objectURLs>>
    /\ pendingEffects' = Scheduled(FALSE, FALSE, FALSE)
    /\ CommitParent(FALSE, FALSE, FALSE)
    /\ NoCalls

\* The checks of handleFileSelect, in order (lines 93-102).
Validate(file) ==
    IF file.type \notin allowedTypes THEN "type"
    ELSE IF file.size > maxSize THEN "size"
    ELSE "ok"

\* lines 92-108 (through handleFileChange, lines 110-113)
HandleFileSelect(file) ==
    /\ pendingEffects = {}
    /\ isUploadModalOpen
    /\ UNCHANGED <<currentPage, isUploadModalOpen, showLowCreditWarning,
                   isSelectPlanModalOpen, selectedPlanForPayment, user, notifications,
                   lowCreditWarningDismissed>>
    /\ NoCalls
    /\ CASE Validate(file) = "type" ->
              /\ activeToast' = TypeErrorToast
              /\ objectURLs' = objectURLs
              /\ pendingEffects' = Scheduled(TRUE, FALSE, FALSE)
              /\ CommitParent(TRUE, FALSE, FALSE)
         [] Validate(file) = "size" ->
              /\ activeToast' = SizeErrorToast
              /\ objectURLs' = objectURLs
              /\ pendingEffects' = Scheduled(TRUE, FALSE, FALSE)
              /\ CommitParent(TRUE, FALSE, FALSE)
         [] OTHER ->
              /\ Len(objectURLs) < MaxUrls
              /\ activeToast' = activeToast
              /\ LET revoked == IF previewUrl # Null
                                THEN [objectURLs EXCEPT ![previewUrl.blob] = "revoked"]
                                ELSE objectURLs
                 IN /\ objectURLs' = Append(revoked, "live")
                    /\ pendingEffects' = Scheduled(FALSE, FALSE, FALSE)
                    /\ readers' = readers
                    /\ Commit(Rendered(FALSE, FALSE, FALSE), file,
                              ObjectUrl(Len(objectURLs) + 1), title, loading)

\* input onChange, line 157
SetTitle(t) ==
    /\ pendingEffects = {}
    /\ isUploadModalOpen
    /\ UNCHANGED <<currentPage, isUploadModalOpen, activeToast, showLowCreditWarning,
                   isSelectPlanModalOpen, selectedPlanForPayment, user, notifications,
                   lowCreditWarningDismissed, objectURLs>>
    /\ pendingEffects' = Scheduled(FALSE, FALSE, FALSE)
    /\ readers' = readers
    /\ Commit(Rendered(FALSE, FALSE, FALSE), imageFile, previewUrl, t, loading)
    /\ NoCalls

\* The submit button's disabled attribute, line 159: a disabled button
\* submits nothing.
SubmitDisabled == loading \/ imageFile = Null \/ Trim(title) = <<>>

\* lines 115-133, up to reader.readAsDataURL
HandleSubmit ==
    /\ pendingEffects = {}
    /\ isUploadModalOpen
    /\ ~SubmitDisabled
    /\ UNCHANGED <<currentPage, isUploadModalOpen, activeToast, showLowCreditWarning,
                   isSelectPlanModalOpen, selectedPlanForPayment, user, notifications,
                   lowCreditWarningDismissed, objectURLs>>
    /\ pendingEffects' = Scheduled(FALSE, FALSE, FALSE)
    /\ NoCalls
    /\ IF imageFile = Null \/ Trim(title) = <<>>
       THEN /\ readers' = readers
            /\ Commit(Rendered(FALSE, FALSE, FALSE), imageFile, previewUrl, title, loading)
       ELSE /\ BagCardinality(readers) < MaxReaders
            /\ readers' = readers (+) SetToBag({[file |-> imageFile, title |-> title]})
            /\ Commit(Rendered(FALSE, FALSE, FALSE), imageFile, previewUrl, title, TRUE)

\* The events a FileReader fires when its read ends: load or error, and then
\* loadend in both cases.  The code listens to error (line 128) and to
\* loadend (line 121).
ReaderEvents(ok) == IF ok THEN <<"load", "loadend">> ELSE <<"error", "loadend">>

\* What the callbacks of a FileReader write: st.loading is the loading slot of
\* the modal instance that started the read (the callbacks' setLoading does
\* nothing once that instance is unmounted, and the commit of their toast
\* remounts the modal in any case), st.open and st.toast the shell's slots,
\* st.calls the addUserUploadedImage calls.

\* reader.onerror, lines 128-131
OnError(st) ==
    [st EXCEPT !.loading = FALSE, !.toast = ReadErrorToast]

\* Mutant: the callback leaves the modal open.
OnLoadEnd_KeepsModalOpen(st, r, ok) ==
    [st EXCEPT !.calls = Append(@, [imageUrl |-> ReadAsDataURL(r.file, ok), title |-> r.title]),
               !.loading = FALSE,
               !.toast = SuccessToast]

\* Mutant: the callback does nothing once the modal is closed.
OnLoadEnd_NothingAfterClose(st, r, ok) ==
    IF ~st.open THEN st
    ELSE [st EXCEPT !.calls = Append(@, [imageUrl |-> ReadAsDataURL(r.file, ok),
                                          title |-> r.title]),
                    !.loading = FALSE,
                    !.open = FALSE,
                    !.toast = SuccessToast]

\* reader.onloadend, lines 121-127
OnLoadEnd(st, r, ok) ==
    [st EXCEPT !.calls = Append(@, [imageUrl |-> ReadAsDataURL(r.file, ok), title |-> r.title]),
               !.loading = FALSE,
               !.open = FALSE,
               !.toast = SuccessToast]

RECURSIVE Dispatch(_, _, _, _)
Dispatch(evs, st, r, ok) ==
    IF evs = <<>> THEN st
    ELSE Dispatch(Tail(evs),
                  CASE Head(evs) = "error" -> OnError(st)
                    [] Head(evs) = "loadend" -> OnLoadEnd(st, r, ok)
                    [] OTHER -> st,
                  r, ok)

\* The end of the read of FileReader r.  Its events are dispatched in one
\* task, so React commits the callbacks' updates together.
ReaderDone(r, ok) ==
    /\ pendingEffects = {}
    /\ BagIn(r, readers)
    /\ LET st == Dispatch(ReaderEvents(ok),
                          [loading |-> loading, open |-> isUploadModalOpen,
                           toast |-> activeToast, calls |-> <<>>],
                          r, ok)
           newToast == st.calls # <<>> \/ st.toast # activeToast
       IN /\ addCalls' = st.calls
          /\ isUploadModalOpen' = st.open
          /\ activeToast' = st.toast
          /\ markCalls' = <<>>
          /\ UNCHANGED <<currentPage, showLowCreditWarning, isSelectPlanModalOpen,
                         selectedPlanForPayment, user, notifications,
                         lowCreditWarningDismissed, objectURLs>>
          /\ pendingEffects' = Scheduled(newToast, FALSE, FALSE)
          /\ readers' = readers (-) SetToBag({r})
          /\ Commit(Rendered(newToast, FALSE, FALSE), imageFile, previewUrl, title,
                    st.loading)

\* -------------------------------------------------------- environment
\* The AuthContext provider publishes a user object: a login, a logout, a
\* change of the credit balance, or a new object with the same fields.
UserChange(u) ==
    /\ pendingEffects = {}
    /\ user' = u
    /\ UNCHANGED <<currentPage, isUploadModalOpen, activeToast, showLowCreditWarning,
                   isSelectPlanModalOpen, selectedPlanForPayment, notifications,
                   lowCreditWarningDismissed, objectURLs>>
    /\ pendingEffects' = Scheduled(FALSE, TRUE, FALSE)
    /\ CommitParent(FALSE, TRUE, FALSE)
    /\ NoCalls

\* The AuthContext provider publishes the notification list: the first list,
\* or the list with a new unread notification in front.
NotificationsChange(userId, createdAt) ==
    /\ pendingEffects = {}
    /\ IF notifications = Null
       THEN notifications' = [items |-> <<>>]
       ELSE /\ Len(notifications.items) < MaxNotifs
            /\ LET k == Len(notifications.items) + 1
                   n == [id |-> NotifId(k), message |-> "message of " \o NotifId(k),
                         type |-> "info", read |-> FALSE, userId |-> userId,
                         createdAt |-> createdAt]
               IN notifications' = [items |-> <<n>> \o notifications.items]
    /\ UNCHANGED <<currentPage, isUploadModalOpen, activeToast, showLowCreditWarning,
                   isSelectPlanModalOpen, selectedPlanForPayment, user,
                   lowCreditWarningDismissed, objectURLs>>
    /\ pendingEffects' = Scheduled(FALSE, FALSE, TRUE)
    /\ CommitParent(FALSE, FALSE, TRUE)
    /\ NoCalls

\* ----------------------------------------------------- specifications
Effects ==
    \/ LowCreditEffect
    \/ NotificationEffect

WarningActions ==
    \/ HandleDismissLowCreditWarning
    \/ HandleBuyCreditsFromWarning

PlanActions ==
    \/ OpenSelectPlanModal
    \/ \E plan \in Plans : HandlePlanSelected(plan)
    \/ CloseSelectPlanModal
    \/ ClosePaymentModal

PageActions ==
    \/ \E page \in Pages : HeaderNavigate(page)
    \/ ProfileNavigateBack
    \/ ProfileNavigateToSupport
    \/ SupportNavigateBack
    \/ FavoritesNavigateBack
    \/ GalleryNavigateBack
    \/ OpenFavorites

UploadActions ==
    \/ OpenUploadModal
    \/ CloseUploadModal
    \/ \E file \in Files : HandleFileSelect(file)
    \/ \E t \in Titles : SetTitle(t)
    \/ HandleSubmit
    \/ \E r \in BagToSet(readers), ok \in BOOLEAN : ReaderDone(r, ok)

\* The whole shell.
Next ==
    \/ Effects
    \/ HandleToastClose
    \/ WarningActions
    \/ PlanActions
    \/ PageActions
    \/ UploadActions
    \/ \E u \in {Null} \cup Users : UserChange(u)
    \/ \E userId \in UserIds, createdAt \in CreatedAts : NotificationsChange(userId, createdAt)

Spec == Init /\ [][Next]_vars

\* The shell's own slots: pages, the low-credit warning, the plan picker and
\* the payment view, the upload modal's open flag.  Nothing here raises a
\* toast or reads the notification list, which stays absent.
InitShell == Init /\ notifications = Null

NextShell ==
    \/ Effects
    \/ WarningActions
    \/ PlanActions
    \/ PageActions
    \/ OpenUploadModal
    \/ CloseUploadModal
    \/ \E u \in {Null} \cup Users : UserChange(u)

SpecShell == InitShell /\ [][NextShell]_vars

\* The users of the two specifications below keep a balance above the
\* low-credit range, so the warning stays hidden.
ToastUsers == {Null} \cup {u \in Users : u.credits = MaxCredits}

\* Toasts: the notification list, the toast slot, its close handler, and the
\* upload modal as far as its rejections, which write to the toast slot.
InitToast == Init /\ user \in ToastUsers /\ ~lowCreditWarningDismissed

NextToast ==
    \/ Effects
    \/ HandleToastClose
    \/ OpenUploadModal
    \/ CloseUploadModal
    \/ \E file \in {f \in Files : Validate(f) # "ok"} : HandleFileSelect(file)
    \/ \E u \in ToastUsers : UserChange(u)
    \/ \E userId \in UserIds, createdAt \in CreatedAts : NotificationsChange(userId, createdAt)

SpecToast == InitToast /\ [][NextToast]_vars

\* The upload flow and the toast slot it writes to, with the close handler of
\* the toast.  The notification list stays as it is at the start (absent or
\* empty), so the toasts are those of the upload flow.
InitUpload == InitToast

NextUpload ==
    \/ Effects
    \/ HandleToastClose
    \/ UploadActions

SpecUpload == InitUpload /\ [][NextUpload]_vars

\* The toasts under the scheduling of React: the effects a commit has
\* scheduled run before the next event is handled.
SpecToastFair ==
    /\ SpecToast
    /\ WF_vars(Effects)

\* The end of a read in flight.
ReaderEnds == \E r \in BagToSet(readers), ok \in BOOLEAN : ReaderDone(r, ok)

\* The upload flow under the scheduling of the browser: React runs the
\* effects a commit has scheduled before it handles the next event, and the
\* event loop dispatches the events of a FileReader whose read has ended.
SpecUploadFair ==
    /\ SpecUpload
    /\ WF_vars(Effects)
    /\ SF_vars(ReaderEnds)

\* The upload flow next to the pages and the plan flow: a read can be in
\* flight while the user navigates and buys.  One valid file and one title
\* are on offer, no toast is closed, and the notification list stays absent.
InitBusy == InitToast /\ notifications = Null

NextBusy ==
    \/ Effects
    \/ PlanActions
    \/ PageActions
    \/ OpenUploadModal
    \/ CloseUploadModal
    \/ HandleFileSelect([type |-> "image/jpeg", size |-> 2 * MiB])
    \/ SetTitle(<<"a">>)
    \/ HandleSubmit
    \/ \E r \in BagToSet(readers), ok \in BOOLEAN : ReaderDone(r, ok)

SpecBusy == InitBusy /\ [][NextBusy]_vars

\* ================================================================ claims
\* The formulas below state the balance range and the file rules with the
\* spec's numbers, not with the model's definitions of the code.

LowBalance == user.credits \in 1..5

\* The low-credit effect has run for the current user.
Recomputed == user # Null /\ "credit" \notin pendingEffects

\* ---------------------------------------------------------------- C2
\* C2 as claimed: whenever a user is present and the recomputation has run,
\* the low-credit warning is shown if and only if the balance is in 1..5 and
\* the dismissal flag is not set.
C2_WarningIffLowAndNotDismissed ==
    Recomputed =>
        (showLowCreditWarning <=> (LowBalance /\ ~lowCreditWarningDismissed))

\* C2 amended: whenever a user is present and the recomputation has run, the
\* warning is shown only if the balance is in 1..5 and the dismissal flag is
\* not set; every recomputation makes it shown exactly in that case, and the
\* only step after which it is hidden although the balance is in 1..5 and the
\* flag is not set is handleBuyCreditsFromWarning.
C2_WarningOnlyIfLowAndNotDismissed ==
    /\ [](Recomputed =>
            (showLowCreditWarning => (LowBalance /\ ~lowCreditWarningDismissed)))
    /\ [][LowCreditEffect => C2_WarningIffLowAndNotDismissed']_vars
    /\ [][(C2_WarningIffLowAndNotDismissed /\ ~C2_WarningIffLowAndNotDismissed')
            => HandleBuyCreditsFromWarning]_vars

\* The warning is on show for a balance at the upper limit.
C2_Witness ==
    /\ Recomputed
    /\ pendingEffects = {}
    /\ showLowCreditWarning
    /\ user.credits = 5

\* ---------------------------------------------------------------- C3
\* C3: a recomputation at a balance of 6 or more clears the dismissal flag; a
\* cleared flag stays cleared until the warning is dismissed, so the next
\* recomputation at a balance in 1..5 shows the warning; and a set flag stays
\* set, the warning hidden, through every step that is not a recomputation
\* at 6 or more (3 -> 0 -> 3 keeps a dismissed warning hidden).
C3_DismissalClearedOnlyAboveLimit ==
    /\ [][(LowCreditEffect /\ user # Null /\ user.credits >= 6)
            => ~lowCreditWarningDismissed']_vars
    /\ [][(~lowCreditWarningDismissed /\ lowCreditWarningDismissed')
            => HandleDismissLowCreditWarning]_vars
    /\ [][(LowCreditEffect /\ user # Null /\ LowBalance /\ ~lowCreditWarningDismissed)
            => showLowCreditWarning']_vars
    /\ [][(lowCreditWarningDismissed
             /\ ~(LowCreditEffect /\ user # Null /\ user.credits >= 6))
            => (lowCreditWarningDismissed' /\ ~showLowCreditWarning')]_vars

\* A dismissed warning stays hidden at a balance in the range.
C3_Witness ==
    /\ Recomputed
    /\ pendingEffects = {}
    /\ lowCreditWarningDismissed
    /\ ~showLowCreditWarning
    /\ user.credits = 3

\* --------------------------------------------------------------- C10
\* C10 as claimed: the plan picker and the payment view are never open at
\* the same time.
C10_PickerAndPaymentExclusive ==
    ~(isSelectPlanModalOpen /\ selectedPlanForPayment # Null)

\* ---------------------------------------------------------------- C4
Items == IF notifications = Null THEN <<>> ELSE notifications.items

\* The unread notifications of the current user.
Eligible ==
    IF user = Null THEN {}
    ELSE { i \in DOMAIN Items : ~Items[i].read /\ Items[i].userId = user.id }

IsNotificationToast(t) == t # Null /\ t.id \notin {"err-T", "succ-T"}

\* C4: whenever the notification effect picks a toast, there was no toast,
\* a user and a list were present, and the toast shows a notification of the
\* list that is unread, belongs to the current user and has the smallest
\* creation time among the unread notifications of that user.
C4_PicksEarliestUnreadOfUser ==
    [][(NotificationEffect /\ activeToast' # activeToast) =>
          /\ activeToast = Null
          /\ user # Null
          /\ notifications # Null
          /\ \E i \in Eligible :
                /\ activeToast' = [id |-> Items[i].id, message |-> Items[i].message,
                                   type |-> Items[i].type]
                /\ \A j \in Eligible :
                      GetTime(Items[i].createdAt) <= GetTime(Items[j].createdAt)]_vars

\* The toast shows the earlier of two unread notifications of the user, which
\* is not the first of the list.
C4_Witness ==
    /\ IsNotificationToast(activeToast)
    /\ Cardinality(Eligible) = 2
    /\ \E i \in Eligible : i > 1 /\ Items[i].id = activeToast.id
    /\ \E i, j \in Eligible : GetTime(Items[i].createdAt) < GetTime(Items[j].createdAt)

\* ---------------------------------------------------------------- C5
\* C5 as claimed: every step that sets a new active toast starts from a
\* state with no active toast.
C5_NewToastOnlyAfterClose ==
    [][(activeToast' # Null /\ activeToast' # activeToast) => activeToast = Null]_vars

\* C5 amended: the toast slot holds at most one toast, and every step that
\* puts a notification of the list on show starts from a state with no
\* active toast; the toasts of the upload flow are set whatever is on show.
C5_NotificationToastOnlyAfterClose ==
    /\ [](activeToast = Null \/ DOMAIN activeToast = {"id", "message", "type"})
    /\ [][(IsNotificationToast(activeToast') /\ activeToast' # activeToast)
            => activeToast = Null]_vars

\* A notification is on show, picked while another unread one waits.
C5_Witness ==
    /\ IsNotificationToast(activeToast)
    /\ \E i \in Eligible : Items[i].id # activeToast.id
    /\ isUploadModalOpen

\* ---------------------------------------------------------------- C6
shellVars == <<currentPage, isUploadModalOpen, activeToast, showLowCreditWarning,
               isSelectPlanModalOpen, selectedPlanForPayment, user, notifications,
               lowCreditWarningDismissed, imageFile, previewUrl, title, loading,
               objectURLs, readers, pendingEffects>>

\* C6: closing the active toast makes exactly one mark-as-read call, with
\* the id of the toast on show alone, and leaves no active toast; no other
\* step makes such a call or clears the toast; closing with no toast makes
\* no call and changes nothing.
C6_CloseMarksTheShownToast ==
    /\ [][(HandleToastClose /\ activeToast # Null) =>
            (markCalls' = << <<activeToast.id>> >> /\ activeToast' = Null)]_vars
    /\ [][(markCalls' # <<>> \/ (activeToast # Null /\ activeToast' = Null)) =>
            (activeToast # Null /\ markCalls' = << <<activeToast.id>> >>
             /\ activeToast' = Null)]_vars
    /\ [][(HandleToastClose /\ activeToast = Null) =>
            (markCalls' = <<>> /\ addCalls' = <<>> /\ UNCHANGED shellVars)]_vars

\* The toast of notification n-1 has just been closed.
C6_Witness ==
    /\ markCalls = << <<"n-1">> >>
    /\ activeToast = Null
    /\ \E i \in DOMAIN Items : Items[i].id = "n-1" /\ Items[i].read

\* ---------------------------------------------------------------- C1
\* C1 as claimed: when a read fails, the resulting toast is the error toast
\* 'Failed to read file.', the upload modal stays as it was, and the
\* registration collaborator is not called.
C1_ReadFailureOnlyReportsError ==
    [][(\E r \in BagToSet(readers) : ReaderDone(r, FALSE)) =>
          /\ activeToast'.message = "Failed to read file."
          /\ activeToast'.type = "error"
          /\ isUploadModalOpen' = isUploadModalOpen
          /\ addCalls' = <<>>]_vars

\* ---------------------------------------------------------------- C7
FileOk(file) ==
    /\ file.type \in {"image/jpeg", "image/png", "image/webp"}
    /\ file.size <= 5 * 1024 * 1024

\* C7 as claimed: a file of a type other than JPEG, PNG or WEBP is rejected
\* with the type message, an allowed file above 5 MiB with the size message,
\* an allowed file of at most 5 MiB is stored; a rejection creates no preview
\* handle, makes no collaborator call and leaves the selected file and its
\* preview as they were.
C7_RejectionLeavesSelection ==
    [][\A file \in Files : HandleFileSelect(file) =>
          IF FileOk(file)
          THEN imageFile' = file /\ Len(objectURLs') = Len(objectURLs) + 1
          ELSE /\ activeToast'.message =
                     (IF file.type \notin {"image/jpeg", "image/png", "image/webp"}
                      THEN "Invalid file type. Use JPG, PNG, or WEBP."
                      ELSE "File is too large. Max size is 5MB.")
               /\ objectURLs' = objectURLs
               /\ addCalls' = <<>>
               /\ markCalls' = <<>>
               /\ imageFile' = imageFile
               /\ previewUrl' = previewUrl]_vars

\* ---------------------------------------------------------------- C8
IsBlank(t) == \A i \in DOMAIN t : t[i] = " "

\* C8: a read starts only in a step taken with the modal open, a valid file
\* selected and a title that is not blank, and it reads that file for that
\* title; the registration collaborator is called only at the end of such a
\* read, with its title.
C8_RegistrationNeedsFileAndTitle ==
    /\ [](\A r \in BagToSet(readers) : FileOk(r.file) /\ ~IsBlank(r.title))
    /\ [](\A k \in DOMAIN addCalls : ~IsBlank(addCalls[k].title))
    /\ [][BagCardinality(readers') > BagCardinality(readers) =>
            /\ isUploadModalOpen
            /\ imageFile # Null
            /\ FileOk(imageFile)
            /\ ~IsBlank(title)
            /\ readers' = readers (+) SetToBag({[file |-> imageFile, title |-> title]})]_vars
    /\ [][addCalls' # <<>> =>
            \E r \in BagToSet(readers) :
               /\ readers' = readers (-) SetToBag({r})
               /\ Len(addCalls') = 1
               /\ addCalls'[1].title = r.title]_vars

\* A valid file with a title of blanks only, and no read in flight.
C8_Witness ==
    /\ isUploadModalOpen
    /\ imageFile # Null
    /\ title # <<>>
    /\ IsBlank(title)
    /\ readers = EmptyBag
    /\ pendingEffects = {}

\* ---------------------------------------------------------------- C9
\* C9: the end of a successful read makes exactly one registration call,
\* with the file's data URL and the submitted title, sets the success toast
\* and leaves the upload modal closed and the loading flag false.
C9_SuccessfulReadPublishes ==
    [][\A r \in BagToSet(readers) : ReaderDone(r, TRUE) =>
          /\ addCalls' = << [imageUrl |-> [scheme |-> "data", mime |-> r.file.type,
                                           bytes |-> r.file.size],
                             title |-> r.title] >>
          /\ activeToast' = [id |-> "succ-T",
                             message |-> "Image successfully published to gallery!",
                             type |-> "success"]
          /\ ~isUploadModalOpen'
          /\ ~loading']_vars

\* The success toast after the registration of a 2 MiB JPEG.
C9_Witness ==
    /\ Len(addCalls) = 1
    /\ addCalls[1].imageUrl = [scheme |-> "data", mime |-> "image/jpeg", bytes |-> 2 * MiB]
    /\ activeToast = SuccessToast
    /\ ~isUploadModalOpen
    /\ ~loading

\* --------------------------------------------------------------- C11
Idle == ~isSelectPlanModalOpen /\ selectedPlanForPayment = Null

Picking == isSelectPlanModalOpen /\ selectedPlanForPayment = Null

Paying(plan) == ~isSelectPlanModalOpen /\ selectedPlanForPayment = plan

\* C11 as claimed: the purchase flow follows Idle -> Picking -> Paying(P) ->
\* Idle.  A buy-credits trigger taken in Idle leads to Picking; choosing plan
\* P leads to Paying(P) in the same step; closing the payment view leads to
\* Idle; closing the picker without choosing leads to Idle; and the picker
\* flag and the plan slot change along these four edges only.
C11_PurchaseFlow ==
    /\ [][((OpenSelectPlanModal \/ HandleBuyCreditsFromWarning) /\ Idle) => Picking']_vars
    /\ [][\A plan \in Plans : HandlePlanSelected(plan) => Paying(plan)']_vars
    /\ [][ClosePaymentModal => Idle']_vars
    /\ [][CloseSelectPlanModal => Idle']_vars
    /\ [][<<isSelectPlanModalOpen, selectedPlanForPayment>>'
              # <<isSelectPlanModalOpen, selectedPlanForPayment>> =>
            \/ Idle /\ Picking'
            \/ Picking /\ \E plan \in Plans : Paying(plan)'
            \/ (\E plan \in Plans : Paying(plan)) /\ Idle'
            \/ Picking /\ Idle']_vars

\* --------------------------------------------------------------- C12
\* C12: a plan becomes the selected plan for payment only in a step taken
\* with the plan picker open, that step is the choice of this plan in the
\* picker, and the plan slot holds no plan or one plan of the offer.
C12_PayingOnlyAfterPicking ==
    /\ [](selectedPlanForPayment = Null \/ selectedPlanForPayment \in Plans)
    /\ [][(selectedPlanForPayment' # Null
             /\ selectedPlanForPayment' # selectedPlanForPayment) =>
            /\ isSelectPlanModalOpen
            /\ HandlePlanSelected(selectedPlanForPayment')]_vars

\* The payment view is open for the plan 'pro', the picker closed.
C12_Witness ==
    /\ selectedPlanForPayment = [name |-> "pro"]
    /\ ~isSelectPlanModalOpen
    /\ pendingEffects = {}

\* --------------------------------------------------------------- C13
\* C13 as claimed: a preview handle is released once, when a later accepted
\* file replaces it or when the upload modal closes.  Whenever the modal is
\* closed every handle created so far is released; the handle of the preview
\* on show is not yet released, so its release is the first; and the only
\* change of a handle is from live to released.
C13_PreviewHandlesReleased ==
    /\ [](~isUploadModalOpen =>
            \A i \in DOMAIN objectURLs : objectURLs[i] = "revoked")
    /\ [](previewUrl # Null => objectURLs[previewUrl.blob] = "live")
    /\ [][\A i \in DOMAIN objectURLs :
              objectURLs'[i] # objectURLs[i] =>
                 (objectURLs[i] = "live" /\ objectURLs'[i] = "revoked")]_vars

\* --------------------------------------------------------------- C14
\* C14 as claimed: the current page is one of the five pages, and the
\* navigate-back action of a page sets the current page to its target: from
\* profile to support, from support to profile, from favorites and from
\* gallery to generator.
C14_BackTargetsAsListed ==
    /\ [](currentPage \in {"generator", "profile", "support", "favorites", "gallery"})
    /\ [][ProfileNavigateBack => currentPage' = "support"]_vars
    /\ [][SupportNavigateBack => currentPage' = "profile"]_vars
    /\ [][FavoritesNavigateBack => currentPage' = "generator"]_vars
    /\ [][GalleryNavigateBack => currentPage' = "generator"]_vars

\* C14 amended: the current page is one of the five pages, and the
\* navigate-back action sets the current page to generator from profile, to
\* profile from support, to generator from favorites and from gallery; the
\* page support is the target of the profile page's navigate-to-support
\* action.
C14_BackTargetsOfTheCode ==
    /\ [](currentPage \in {"generator", "profile", "support", "favorites", "gallery"})
    /\ [][ProfileNavigateBack => (currentPage = "profile" /\ currentPage' = "generator")]_vars
    /\ [][ProfileNavigateToSupport =>
            (currentPage = "profile" /\ currentPage' = "support")]_vars
    /\ [][SupportNavigateBack => (currentPage = "support" /\ currentPage' = "profile")]_vars
    /\ [][FavoritesNavigateBack =>
            (currentPage = "favorites" /\ currentPage' = "generator")]_vars
    /\ [][GalleryNavigateBack => (currentPage = "gallery" /\ currentPage' = "generator")]_vars

\* The support page is on show.
C14_Witness ==
    /\ currentPage = "support"
    /\ pendingEffects = {}

\* --------------------------------------------------------------- C15
\* C15: the end of a read whose modal has been closed in the meantime still
\* makes the registration call for the submitted title and sets the success
\* toast, the modal staying closed; and in every state with the modal closed
\* and a read in flight the end of that read can be taken.
C15_LateCompletionNotSuppressed ==
    /\ [][\A r \in BagToSet(readers) :
              (ReaderDone(r, TRUE) /\ ~isUploadModalOpen) =>
                 /\ Len(addCalls') = 1
                 /\ addCalls'[1].title = r.title
                 /\ activeToast' = [id |-> "succ-T",
                                    message |-> "Image successfully published to gallery!",
                                    type |-> "success"]
                 /\ ~isUploadModalOpen']_vars
    /\ []((~isUploadModalOpen /\ readers # EmptyBag /\ pendingEffects = {}) =>
            \A r \in BagToSet(readers) : ENABLED ReaderDone(r, TRUE))

\* The modal is closed, a read is in flight, and its end, a step that makes
\* a registration call and sets the success toast, can be taken next.
C15_Witness ==
    /\ ~isUploadModalOpen
    /\ readers # EmptyBag
    /\ activeToast = Null
    /\ ENABLED (\E r \in BagToSet(readers) :
                   /\ ReaderDone(r, TRUE)
                   /\ addCalls' # <<>>
                   /\ activeToast' = SuccessToast)

\* --------------------------------------------------------------- C16
\* C16: a setCurrentPage step sets the current page and leaves the upload
\* modal flag, the plan-picker flag, the selected plan, the active toast and
\* the low-credit warning flag unchanged; it can be taken for every page in
\* every state in which the effects of the last step have run; and with a
\* read in flight and the loading flag true the page can be changed, the
\* plan picker opened, and closed or used when open, and the payment view
\* closed when open.
C16_NavigationFrame ==
    /\ [][\A page \in Pages : SetCurrentPage(page) =>
              /\ currentPage' = page
              /\ UNCHANGED <<isUploadModalOpen, isSelectPlanModalOpen,
                             selectedPlanForPayment, activeToast,
                             showLowCreditWarning>>]_vars
    /\ [](pendingEffects = {} => \A page \in Pages : ENABLED SetCurrentPage(page))
    /\ []((pendingEffects = {} /\ loading /\ readers # EmptyBag) =>
            /\ ENABLED OpenSelectPlanModal
            /\ isSelectPlanModalOpen =>
                  /\ ENABLED CloseSelectPlanModal
                  /\ \A plan \in Plans : ENABLED HandlePlanSelected(plan)
            /\ selectedPlanForPayment # Null => ENABLED ClosePaymentModal)

\* A read is in flight, the loading flag is true, the payment view is open,
\* and a step to the gallery page that leaves the read in flight can be
\* taken.
C16_Witness ==
    /\ loading
    /\ readers # EmptyBag
    /\ selectedPlanForPayment # Null
    /\ currentPage = "profile"
    /\ ENABLED (SetCurrentPage("gallery") /\ readers' = readers)

\* --------------------------------------------------------------- C17
\* C17 as claimed: the loading flag becomes true with the start of a read and
\* stays true while the modal stays open until a read ends; the end of a
\* read, successful or failed, leaves it false; a read starts only with the
\* flag false, so that the open modal has at most one read in flight; and
\* the flag, once true, is eventually false again.
C17_LoadingSpansTheEncode ==
    /\ [][BagCardinality(readers') > BagCardinality(readers) =>
            (~loading /\ loading')]_vars
    /\ [][(loading /\ isUploadModalOpen' /\ ~ReaderEnds) => loading']_vars
    /\ [][ReaderEnds => ~loading']_vars
    /\ loading ~> ~loading

\* --------------------------------------------------------------- C18
\* C18 as claimed: every id passed to the mark-as-read collaborator is the id
\* of a notification of the list that is unread and belongs to the current
\* user when the call is made, and closing a toast of the upload flow makes
\* no mark-as-read call.
C18_MarksOnlyUnreadOfUser ==
    /\ [][\A k \in DOMAIN markCalls' : \A j \in DOMAIN markCalls'[k] :
              \E i \in Eligible : Items[i].id = markCalls'[k][j]]_vars
    /\ [][(HandleToastClose /\ activeToast # Null /\ ~IsNotificationToast(activeToast))
            => markCalls' = <<>>]_vars

\* --------------------------------------------------------------- C19
\* An upload flow step that sets its toast.
UploadToastStep ==
    /\ activeToast' # Null
    /\ ~IsNotificationToast(activeToast')
    /\ \/ \E file \in Files : HandleFileSelect(file)
       \/ ReaderEnds

\* Notification id waits: it is in the list, unread, and of the current user.
Waiting(id) == \E i \in Eligible : Items[i].id = id

\* Notification id belongs to the current user.
OfCurrentUser(id) ==
    /\ user # Null
    /\ \E i \in DOMAIN Items : Items[i].id = id /\ Items[i].userId = user.id

\* The toast of notification id has just been closed and the notification is
\* read.
ShownAndMarked(id) ==
    /\ markCalls = << <<id>> >>
    /\ \E i \in DOMAIN Items : Items[i].id = id /\ Items[i].read

\* C19: provided that every toast on show is eventually closed and that the
\* upload flow sets a toast only finitely often (the mark-as-read call takes
\* effect at once in the model), every unread notification of the current
\* user is eventually put on show, closed and thereby marked read, unless the
\* current user changes before; this covers a notification whose toast an
\* upload toast has replaced.  A notification becomes read only by closing
\* its toast, and whenever one is put on show none of the waiting ones is
\* earlier.
C19_NoUnreadLost ==
    /\ ((activeToast # Null ~> activeToast = Null) /\ <>[][~UploadToastStep]_vars)
          => \A k \in 1..MaxNotifs :
                Waiting(NotifId(k)) ~> (ShownAndMarked(NotifId(k)) \/ ~OfCurrentUser(NotifId(k)))
    /\ [][\A i \in DOMAIN Items :
              (~Items[i].read /\ Len(Items') = Len(Items) /\ Items'[i].read) =>
                 (HandleToastClose /\ activeToast # Null /\ activeToast.id = Items[i].id)]_vars
    /\ [][(NotificationEffect /\ activeToast' # activeToast) =>
              \E i \in Eligible :
                 /\ activeToast'.id = Items[i].id
                 /\ \A j \in Eligible :
                       GetTime(Items[i].createdAt) <= GetTime(Items[j].createdAt)]_vars

\* Two notifications of the current user are read, and the toast closed last
\* is that of the later one.
C19_Witness ==
    /\ user # Null
    /\ activeToast = Null
    /\ Len(Items) = 2
    /\ \A i \in DOMAIN Items : Items[i].read /\ Items[i].userId = user.id
    /\ \E i, j \in DOMAIN Items :
          /\ GetTime(Items[i].createdAt) < GetTime(Items[j].createdAt)
          /\ markCalls = << <<Items[j].id>> >>

====
